---- MODULE Spec2Model ----
(***************************************************************************)
(* Model of the order backend of src/index.js: POST /create-order writes   *)
(* a pending row to the spreadsheet ledger and creates a gateway order,    *)
(* POST /razorpay-webhook verifies a signed event and marks the row paid.  *)
(* Every handler is an async function: it runs atomically between two      *)
(* awaits, so each action below is the code from one await to the next,    *)
(* together with the effect of the remote call it awaited.                 *)
(*                                                                         *)
(* Strings whose characters the code inspects (tracking ids, column B) are *)
(* tuples of one-character strings; other cells are plain strings.         *)
(***************************************************************************)
EXTENDS Integers, Sequences, FiniteSets, Bags, TLC

VARIABLES
    sheet,    \* the ledger: the rows of Sheet1
    cr,       \* the create-order requests
    orders,   \* the orders created at the gateway
    hooks,    \* the webhook requests waiting on a ledger call
    last,     \* what the last step did with a webhook request, if it was one
    seen      \* the tracking ids of the verified payment.captured events received

vars == <<sheet, cr, orders, hooks, last, seen>>

----------------------------------------------------------------------------
(* Bounds of the model *)

\* number of create-order requests
MaxOrders == 2

\* number of webhook requests waiting on a ledger call at one time
MaxHooks == 2

Orders == 1..MaxOrders

----------------------------------------------------------------------------
(* Strings *)

DigitChars == <<"0", "1", "2", "3", "4", "5", "6", "7", "8", "9">>

IsDigit(c) == \E d \in 1..10 : DigitChars[d] = c

DigitVal(c) == (CHOOSE d \in 1..10 : DigitChars[d] = c) - 1

\* String(n) of a non-negative integer
RECURSIVE ToDigits(_)
ToDigits(n) ==
    IF n < 10 THEN <<DigitChars[n + 1]>>
    ELSE ToDigits(n \div 10) \o <<DigitChars[(n % 10) + 1]>>

\* parseInt of a string of decimal digits
RECURSIVE parseInt(_)
parseInt(s) ==
    IF Len(s) = 0 THEN 0
    ELSE 10 * parseInt(SubSeq(s, 1, Len(s) - 1)) + DigitVal(s[Len(s)])

\* s.slice(-3)
SliceLast3(s) == IF Len(s) <= 3 THEN s ELSE SubSeq(s, Len(s) - 2, Len(s))

ID_PREFIX == <<"S", "P", "L">>

START_BATCH == 351

\* lastId.startsWith(ID_PREFIX)
StartsWithPrefix(s) == Len(s) >= 3 /\ SubSeq(s, 1, 3) = ID_PREFIX

\* lastId.match(/^SPL(\d{3})(\d{3})$/)
MatchesIdPattern(s) ==
    /\ Len(s) = 9
    /\ SubSeq(s, 1, 3) = ID_PREFIX
    /\ \A k \in 4..9 : IsDigit(s[k])

\* ID_PREFIX + currentBatch + ("000" + currentSequence).slice(-3)
FormatId(currentBatch, currentSequence) ==
    ID_PREFIX \o ToDigits(currentBatch)
              \o SliceLast3(<<"0", "0", "0">> \o ToDigits(currentSequence))

\* rows is the column B:B as returned by values.get, one cell per row
generateCustomId(rows) ==
    IF Len(rows) > 1
       /\ Len(rows[Len(rows)]) > 0
       /\ StartsWithPrefix(rows[Len(rows)])
       /\ MatchesIdPattern(rows[Len(rows)])
    THEN LET lastId == rows[Len(rows)]
             batch == parseInt(SubSeq(lastId, 4, 6))
             nextSeq == parseInt(SubSeq(lastId, 7, 9)) + 1
         IN  IF nextSeq > 999 THEN FormatId(batch + 1, 1)
             ELSE FormatId(batch, nextSeq)
    ELSE FormatId(START_BATCH, 1)

----------------------------------------------------------------------------
(* The ledger: one row per order; columns B, C, D and Q of Sheet1 *)

\* the position of the first occurrence of pat in s, 0 when there is none
RECURSIVE IndexFrom(_, _, _)
IndexFrom(s, pat, k) ==
    IF k + Len(pat) - 1 > Len(s) THEN 0
    ELSE IF SubSeq(s, k, k + Len(pat) - 1) = pat THEN k
    ELSE IndexFrom(s, pat, k + 1)

IndexOf(s, pat) == IndexFrom(s, pat, 1)

\* String.prototype.includes
Includes(s, pat) == IndexOf(s, pat) # 0

\* s.split(pat)[1]: what stands between the first occurrence of pat and the
\* next one, or the end of s
SplitSecond(s, pat) ==
    LET rest == SubSeq(s, IndexOf(s, pat) + Len(pat), Len(s))
    IN  IF Includes(rest, pat) THEN SubSeq(rest, 1, IndexOf(rest, pat) - 1) ELSE rest

\* s.replace(pat, ""): a string pattern replaces its first occurrence only
ReplaceFirst(s, pat) ==
    IF Includes(s, pat)
    THEN SubSeq(s, 1, IndexOf(s, pat) - 1) \o SubSeq(s, IndexOf(s, pat) + Len(pat), Len(s))
    ELSE s

\* String.prototype.trim
RECURSIVE Trim(_)
Trim(s) ==
    IF Len(s) = 0 THEN s
    ELSE IF s[1] = " " THEN Trim(Tail(s))
    ELSE IF s[Len(s)] = " " THEN Trim(SubSeq(s, 1, Len(s) - 1))
    ELSE s

SIZE_MARKER == <<"(", "S", "i", "z", "e", ":">>

NOT_AVAILABLE == <<"N", "/", "A">>

\* the size parsing of the create-order handler; an empty label is falsy
ParseSize(product_name) ==
    IF Len(product_name) > 0 /\ Includes(product_name, SIZE_MARKER)
    THEN Trim(ReplaceFirst(SplitSecond(product_name, SIZE_MARKER), <<")">>))
    ELSE NOT_AVAILABLE

PENDING == "Pending Payment"

PAID == "Payment Received - PAID"

PLACEHOLDER == "Generating..."

HeaderRow ==
    [B |-> <<"I", "D">>, C |-> "Rzp Order ID", D |-> "Name",
     L |-> <<"S", "i", "z", "e">>, Q |-> "Status"]

\* values.get on range Sheet1!B:B
ColumnB(s) == [r \in 1..Len(s) |-> s[r].B]

\* newRow of savePendingOrderToSheet
NewRow(data, size, newCustomId) ==
    [B |-> newCustomId, C |-> PLACEHOLDER, D |-> data.customer_name,
     L |-> size, Q |-> PENDING]

\* a variant that puts the row above the first row
AppendRowOnTop(s, row) == <<row>> \o s

\* values.append: the row goes below the last row of the sheet
AppendRow(s, row) == Append(s, row)

\* a variant of the row scan that falls back on the last row
FindRowIndexLast(rows, targetId) ==
    IF \E i \in 1..Len(rows) : rows[i] = targetId
    THEN CHOOSE i \in 1..Len(rows) :
            /\ rows[i] = targetId
            /\ \A k \in 1..(i - 1) : rows[k] # targetId
    ELSE Len(rows)

\* a variant of the row scan that returns the 0-based position
FindRowIndexZeroBased(rows, targetId) ==
    IF \E i \in 1..Len(rows) : rows[i] = targetId
    THEN (CHOOSE i \in 1..Len(rows) :
            /\ rows[i] = targetId
            /\ \A k \in 1..(i - 1) : rows[k] # targetId) - 1
    ELSE -1

\* the row scan of updateSheetStatus: the first match, 1-based, or -1
FindRowIndex(rows, targetId) ==
    IF \E i \in 1..Len(rows) : rows[i] = targetId
    THEN CHOOSE i \in 1..Len(rows) :
            /\ rows[i] = targetId
            /\ \A k \in 1..(i - 1) : rows[k] # targetId
    ELSE -1

\* a variant that writes the changed row below the last row
UpdateCellAppend(s, rowIndex, col, value) ==
    IF rowIndex \in 1..Len(s)
    THEN Append(s, [s[rowIndex] EXCEPT ![col] = value])
    ELSE s

\* a variant that writes the whole column
UpdateCellColumn(s, rowIndex, col, value) ==
    [r \in 1..Len(s) |-> [s[r] EXCEPT ![col] = value]]

\* values.update of the single cell <col><rowIndex>; a cell below the last
\* row cannot arise, rows are never removed
UpdateCell(s, rowIndex, col, value) ==
    IF rowIndex \in 1..Len(s)
    THEN [s EXCEPT ![rowIndex] = [@ EXCEPT ![col] = value]]
    ELSE s

\* updateSheetStatus run from its read to its second write with no other
\* ledger call in between
updateSheetStatus(s, targetId, rzpPaymentId) ==
    LET rowIndex == FindRowIndex(ColumnB(s), targetId)
    IN  IF rowIndex # -1
        THEN UpdateCell(UpdateCell(s, rowIndex, "C", rzpPaymentId), rowIndex, "Q", PAID)
        ELSE s

----------------------------------------------------------------------------
(* The webhook's request body and signature *)

WEBHOOK_SECRET == "whsec"

OtherSecret == "forged"

\* crypto.createHmac('sha256', key).update(msg).digest('hex'): distinct
\* (key, message) pairs give distinct digests
Hmac(key, msg) == [key |-> key, msg |-> msg]

\* the notes of payload.payment.entity
NoNotes == [present |-> FALSE, has_id |-> FALSE, sheet_id |-> <<>>]

NotesWithoutId == [present |-> TRUE, has_id |-> FALSE, sheet_id |-> <<>>]

NotesWithId(s) == [present |-> TRUE, has_id |-> TRUE, sheet_id |-> s]

\* the tracking ids a webhook may carry: the first two ids the generator
\* hands out
T1 == FormatId(START_BATCH, 1)

T2 == FormatId(START_BATCH, 2)

Body(event, id, notes) == [event |-> event, id |-> id, notes |-> notes]

\* the bytes of a request body: the JSON value they encode and whether the
\* encoding carries whitespace between its tokens
Encode(body, spaced) ==
    [event |-> body.event, id |-> body.id, notes |-> body.notes, spaced |-> spaced]

\* the events of the payment of the first and of the second order
Captured1 == Body("payment.captured", "pay_1", NotesWithId(T1))

Captured2 == Body("payment.captured", "pay_2", NotesWithId(T2))

Failed1 == Body("payment.failed", "pay_1", NotesWithId(T1))

\* events of both types, with every shape of notes
Bodies ==
    {Body(e, "pay_1", n) :
        e \in {"payment.captured", "payment.failed"},
        n \in {NotesWithId(T1), NotesWithId(<<>>), NotesWithoutId, NoNotes}}
    \cup {Captured2}

RawBodies == {Encode(b, s) : b \in Bodies, s \in BOOLEAN}

\* bodyParser.json(): req.body is the parsed value, the formatting is gone
JsonParse(raw) == Body(raw.event, raw.id, raw.notes)

\* JSON.stringify(req.body): the compact encoding of the value
JsonStringify(body) == Encode(body, FALSE)

NoBody == Body("", "", NoNotes)

\* no signature at all
NoSignature == [key |-> "", msg |-> Encode(NoBody, FALSE)]

\* the x-razorpay-signature values a sender may attach to a body: none, its
\* HMAC under the shared secret, the HMAC of its compact re-encoding, its
\* HMAC under another secret
SignatureChoices(raw) ==
    {NoSignature,
     Hmac(WEBHOOK_SECRET, raw),
     Hmac(WEBHOOK_SECRET, JsonStringify(JsonParse(raw))),
     Hmac(OtherSecret, raw)}

\* digest === signature, the digest taken over JSON.stringify(req.body)
DigestMatches(body, signature) == Hmac(WEBHOOK_SECRET, JsonStringify(body)) = signature

\* notes.sheet_id is truthy
HasSheetId(notes) == notes.has_id /\ Len(notes.sheet_id) > 0

----------------------------------------------------------------------------
(* Responses *)

NoResponse == [code |-> 0, status |-> "", order_id |-> 0, custom_id |-> <<>>]

\* a variant that answers with the gateway order id in place of the
\* tracking id
OkResponseOrderId(orderId, sheetId) ==
    [code |-> 200, status |-> "OK", order_id |-> orderId, custom_id |-> ToDigits(orderId)]

\* res.json({status: 'OK', order_id, ..., custom_id: sheetId})
OkResponse(orderId, sheetId) ==
    [code |-> 200, status |-> "OK", order_id |-> orderId, custom_id |-> sheetId]

\* a variant that sends the failure body without the error status code
FailedResponseOk == [code |-> 200, status |-> "FAILED", order_id |-> 0, custom_id |-> <<>>]

\* res.status(500).json({status: 'FAILED', message})
FailedResponse == [code |-> 500, status |-> "FAILED", order_id |-> 0, custom_id |-> <<>>]

\* a variant that leaves the tracking id out of the notes
OrderOptionsNoId(id, sheetId, data) ==
    [id |-> id, notes |-> [sheet_id |-> <<>>, customer_name |-> data.customer_name]]

\* the options of razorpay.orders.create; id is the order id the gateway
\* returns, one per call
OrderOptions(id, sheetId, data) ==
    [id |-> id, notes |-> [sheet_id |-> sheetId, customer_name |-> data.customer_name]]

HookResponse(code, status) == [code |-> code, status |-> status]

NoHookResponse == HookResponse(0, "")

\* res.status(200).json({status: 'ok'})
HookOk == HookResponse(200, "ok")

\* res.status(500).send("Error updating sheet")
HookError == HookResponse(500, "Error updating sheet")

----------------------------------------------------------------------------
(* State *)

\* the request bodies of POST /create-order
\* product labels: "Shoe (Size: 9)" and others, without the marker, with
\* text after the closing bracket, with brackets elsewhere, with two markers
SizedLabel == <<"S", "h", "o", "e", " ", "(", "S", "i", "z", "e", ":", " ", "9", ")">>

ProductLabels ==
    {SizedLabel, <<>>,
     <<"S", "h", "o", "e">>,
     <<"S", "h", "o", "e", " ", "(", "S", "i", "z", "e", ":", " ", "9", ")", " ", "x">>,
     <<"(", "S", "i", "z", "e", ":", "1", "0", " ", ")">>,
     <<"a", ")", " ", "(", "S", "i", "z", "e", ":", " ", "8", ")">>,
     <<"(", "S", "i", "z", "e", ":", " ", "7", ")", "(", "S", "i", "z", "e", ":", " ", "8", ")">>}

\* the data of the requests that run along with webhook requests
OrderData == [customer_name : {"Asha"}, product_name : {SizedLabel}]

\* the data of the requests that run one at a time
LabelledOrderData == [customer_name : {"Asha"}, product_name : ProductLabels]

NoData == [customer_name |-> "", product_name |-> <<>>]

\* a create-order request: pc is the await it stands at; row is the position
\* at which its append landed (0: none), kept to state the claims
IdleOrder ==
    [pc |-> "idle", data |-> NoData, size |-> <<>>, newCustomId |-> <<>>, row |-> 0,
     res |-> NoResponse]

\* a webhook request inside updateSheetStatus: pc is the values.update it
\* waits on
Hook(pc, targetId, rzpPaymentId, rowIndex) ==
    [pc |-> pc, targetId |-> targetId, rzpPaymentId |-> rzpPaymentId,
     rowIndex |-> rowIndex]

\* the record of a step on a webhook request
\*   phase "received": the request arrived with raw and sig; res is its
\*       response if the step answered it
\*   phase "answered": a request that waited on a values.update was answered
\*   phase "unanswered": the handler threw and sent no response
\* calls counts the ledger calls the request has issued
HookStep(phase, raw, sig, res, calls) ==
    [phase |-> phase, raw |-> raw, sig |-> sig, res |-> res, calls |-> calls]

NoHookStep == HookStep("", Encode(NoBody, FALSE), NoSignature, NoHookResponse, 0)

\* a new spreadsheet, or one that holds the header row only
Init ==
    /\ sheet \in {<<>>, <<HeaderRow>>}
    /\ cr = [i \in Orders |-> IdleOrder]
    /\ orders = {}
    /\ hooks = EmptyBag
    /\ last = NoHookStep
    /\ seen = {}

----------------------------------------------------------------------------
(* POST /create-order.  A request is invisible to the others until its    *)
(* first ledger call takes effect, so its arrival and the answer of       *)
(* values.get are one step.                                               *)

\* the handler up to the answer of values.get in savePendingOrderToSheet:
\* the id is generated from the column as read now
CreateOrderRead(i, data) ==
    /\ cr[i].pc = "idle"
    /\ IF i = 1 THEN TRUE ELSE cr[i - 1].pc # "idle"
    /\ cr' = [cr EXCEPT ![i] = [@ EXCEPT !.pc = "append", !.data = data,
                                        !.size = ParseSize(data.product_name),
                                        !.newCustomId = generateCustomId(ColumnB(sheet))]]
    /\ last' = NoHookStep
    /\ UNCHANGED <<sheet, orders, hooks, seen>>

\* values.append takes effect; savePendingOrderToSheet returns newCustomId
\* and the handler calls razorpay.orders.create
SaveAppend(i) ==
    /\ cr[i].pc = "append"
    /\ sheet' = AppendRow(sheet, NewRow(cr[i].data, cr[i].size, cr[i].newCustomId))
    /\ cr' = [cr EXCEPT ![i] = [@ EXCEPT !.pc = "order", !.row = Len(sheet) + 1]]
    /\ last' = NoHookStep
    /\ UNCHANGED <<orders, hooks, seen>>

\* razorpay.orders.create answers; the handler responds
GatewayCreate(i) ==
    /\ cr[i].pc = "order"
    /\ orders' = orders \cup {OrderOptions(i, cr[i].newCustomId, cr[i].data)}
    /\ cr' = [cr EXCEPT ![i] = [@ EXCEPT !.pc = "done",
                                         !.res = OkResponse(i, cr[i].newCustomId)]]
    /\ last' = NoHookStep
    /\ UNCHANGED <<sheet, hooks, seen>>

\* the awaited call (values.get, values.append or orders.create) rejects:
\* the catch block responds
CreateOrderCatch(i) ==
    /\ \/ /\ cr[i].pc = "idle"
          /\ IF i = 1 THEN TRUE ELSE cr[i - 1].pc # "idle"
       \/ cr[i].pc \in {"append", "order"}
    /\ cr' = [cr EXCEPT ![i] = [@ EXCEPT !.pc = "done", !.res = FailedResponse]]
    /\ last' = NoHookStep
    /\ UNCHANGED <<sheet, orders, hooks, seen>>

----------------------------------------------------------------------------
(* POST /razorpay-webhook.  As above, the arrival of a request and the    *)
(* answer of the values.get of updateSheetStatus are one step.            *)

\* a variant that does not compare the digest
VerdictNoSignature(body, signature) ==
    IF body.event # "payment.captured" THEN "ignored"
    ELSE IF ~body.notes.present THEN "throws"
    ELSE IF HasSheetId(body.notes) THEN "update"
    ELSE "no_id"

\* a variant that looks at the event type before the digest
VerdictEventFirst(body, signature) ==
    IF body.event # "payment.captured" THEN "ignored"
    ELSE IF ~DigestMatches(body, signature) THEN "rejected"
    ELSE IF ~body.notes.present THEN "throws"
    ELSE IF HasSheetId(body.notes) THEN "update"
    ELSE "no_id"

\* a variant that looks at the notes before the event type
VerdictNotesFirst(body, signature) ==
    IF ~DigestMatches(body, signature) THEN "rejected"
    ELSE IF body.notes.present /\ HasSheetId(body.notes) THEN "update"
    ELSE IF body.event # "payment.captured" THEN "ignored"
    ELSE IF ~body.notes.present THEN "throws"
    ELSE "no_id"

\* what the handler does with a request before its first await
\*   "rejected", "ignored", "no_id" : it responds at once
\*   "throws" : notes is undefined, reading notes.sheet_id throws
\*   "update" : it calls updateSheetStatus
Verdict(body, signature) ==
    IF ~DigestMatches(body, signature) THEN "rejected"
    ELSE IF body.event # "payment.captured" THEN "ignored"
    ELSE IF ~body.notes.present THEN "throws"
    ELSE IF HasSheetId(body.notes) THEN "update"
    ELSE "no_id"

\* the response of a request that is answered before any await
ImmediateResponse(verdict) ==
    CASE verdict = "rejected" -> HookResponse(400, "invalid_signature")
      [] verdict = "ignored" -> HookResponse(200, "ignored")
      [] verdict = "no_id" -> HookResponse(200, "no_id_found")

\* the ledger calls a request has issued when it waits at pc: values.get and
\* one or two values.update
CallsAt(pc) == IF pc = "writeC" THEN 2 ELSE 3

\* the event a request inside updateSheetStatus carries
RawOf(h) ==
    Encode(Body("payment.captured", h.rzpPaymentId, NotesWithId(h.targetId)), FALSE)

Answered(h, res) ==
    HookStep("answered", RawOf(h), Hmac(WEBHOOK_SECRET, RawOf(h)), res, CallsAt(h.pc))

\* the tracking id of a request that carries the digest of its parsed body,
\* the payment.captured type and a sheet_id note
VerifiedCapture(raw, sig) ==
    IF /\ sig = Hmac(WEBHOOK_SECRET, JsonStringify(JsonParse(raw)))
       /\ raw.event = "payment.captured"
       /\ raw.notes.present /\ raw.notes.has_id
    THEN {raw.notes.sheet_id}
    ELSE {}

\* the row holds the payment id and the paid status
Applied(s, rowIndex, rzpPaymentId) ==
    /\ rowIndex \in 1..Len(s)
    /\ s[rowIndex].C = rzpPaymentId
    /\ s[rowIndex].Q = PAID

\* the handler up to its first await, and for a request that reaches
\* updateSheetStatus up to the answer of values.get and the row scan.
\* A throw outside the try block rejects the handler's promise: the request
\* stays unanswered, or the framework's error handler answers 500,
\* depending on the framework version
WebhookReceive(raw, sig) ==
    LET body == JsonParse(raw)
        verdict == Verdict(body, sig)
        rowIndex == FindRowIndex(ColumnB(sheet), body.notes.sheet_id)
    IN  /\ BagCardinality(hooks) < MaxHooks
        /\ seen' = seen \cup VerifiedCapture(raw, sig)
        /\ \/ /\ verdict \in {"rejected", "ignored", "no_id"}
              /\ last' = HookStep("received", raw, sig, ImmediateResponse(verdict), 0)
              /\ UNCHANGED hooks
           \/ /\ verdict = "throws"
              /\ \/ last' = HookStep("unanswered", raw, sig, NoHookResponse, 0)
                 \/ last' = HookStep("received", raw, sig, HookResponse(500, "unhandled"), 0)
              /\ UNCHANGED hooks
           \/ /\ verdict = "update"
              /\ \/ /\ rowIndex # -1
                    /\ last' = HookStep("received", raw, sig, NoHookResponse, 2)
                    /\ hooks' = hooks (+) SetToBag({Hook("writeC", body.notes.sheet_id,
                                                          body.id, rowIndex)})
                 \/ /\ rowIndex = -1
                    /\ last' = HookStep("received", raw, sig, HookOk, 1)
                    /\ UNCHANGED hooks
                 \/ \* values.get rejects
                    /\ last' = HookStep("received", raw, sig, HookError, 1)
                    /\ UNCHANGED hooks
        /\ UNCHANGED <<sheet, cr, orders>>

\* a variant whose first write is the status cell
UpdateWriteStatusFirst(h) ==
    /\ BagIn(h, hooks)
    /\ h.pc = "writeC"
    /\ sheet' = UpdateCell(sheet, h.rowIndex, "Q", PAID)
    /\ hooks' = (hooks (-) SetToBag({h})) (+) SetToBag({[h EXCEPT !.pc = "writeQ"]})
    /\ last' = NoHookStep
    /\ UNCHANGED <<cr, orders, seen>>

\* values.update of C<rowIndex> takes effect; values.update of Q is called
UpdateWriteC(h) ==
    /\ BagIn(h, hooks)
    /\ h.pc = "writeC"
    /\ sheet' = UpdateCell(sheet, h.rowIndex, "C", h.rzpPaymentId)
    /\ hooks' = (hooks (-) SetToBag({h})) (+) SetToBag({[h EXCEPT !.pc = "writeQ"]})
    /\ last' = NoHookStep
    /\ UNCHANGED <<cr, orders, seen>>

\* values.update of Q<rowIndex> takes effect; the handler responds
UpdateWriteQ(h) ==
    /\ BagIn(h, hooks)
    /\ h.pc = "writeQ"
    /\ sheet' = UpdateCell(sheet, h.rowIndex, "Q", PAID)
    /\ hooks' = hooks (-) SetToBag({h})
    /\ last' = Answered(h, HookOk)
    /\ UNCHANGED <<cr, orders, seen>>

\* the awaited values.update rejects: the catch block responds
WebhookCatch(h) ==
    /\ BagIn(h, hooks)
    /\ hooks' = hooks (-) SetToBag({h})
    /\ last' = Answered(h, HookError)
    /\ UNCHANGED <<sheet, cr, orders, seen>>

----------------------------------------------------------------------------

InFlight == BagToSet(hooks)

\* the requests the webhook endpoint receives while orders are taken: the
\* gateway's signed events for the first two orders, and a forged one
Deliveries ==
    {<<Encode(b, FALSE), Hmac(WEBHOOK_SECRET, Encode(b, FALSE))>> :
        b \in {Captured1, Captured2, Failed1}}
    \cup {<<Encode(Captured1, FALSE), Hmac(OtherSecret, Encode(Captured1, FALSE))>>}

Next ==
    \/ \E i \in Orders : \E data \in OrderData : CreateOrderRead(i, data)
    \/ \E i \in Orders : SaveAppend(i)
    \/ \E i \in Orders : GatewayCreate(i)
    \/ \E i \in Orders : CreateOrderCatch(i)
    \/ \E d \in Deliveries : WebhookReceive(d[1], d[2])
    \/ \E h \in InFlight : UpdateWriteC(h)
    \/ \E h \in InFlight : UpdateWriteQ(h)
    \/ \E h \in InFlight : WebhookCatch(h)

\* the whole system, from a new sheet
Spec == Init /\ [][Next]_vars

\* ledgers the order workflow leaves behind: Init's two sheets, and sheets
\* with pending rows
PendingRow(id) ==
    NewRow([customer_name |-> "Asha", product_name |-> SizedLabel], ParseSize(SizedLabel), id)

Ledgers ==
    {<<>>, <<HeaderRow>>, <<HeaderRow, PendingRow(T1)>>,
     <<HeaderRow, PendingRow(T1), PendingRow(T2)>>}

InitWebhook ==
    /\ sheet \in Ledgers
    /\ cr = [i \in Orders |-> IdleOrder]
    /\ orders = {}
    /\ hooks = EmptyBag
    /\ last = NoHookStep
    /\ seen = {}

NextWebhook ==
    \/ \E raw \in RawBodies : \E sig \in SignatureChoices(raw) : WebhookReceive(raw, sig)
    \/ \E h \in InFlight : UpdateWriteC(h)
    \/ \E h \in InFlight : UpdateWriteQ(h)
    \/ \E h \in InFlight : WebhookCatch(h)

\* the webhook endpoint alone, under every request, on a ledger that no
\* order is being added to
SpecWebhook == InitWebhook /\ [][NextWebhook]_vars

\* the webhook requests that can wait on a values.update
HookValues ==
    {Hook(pc, c.notes.sheet_id, c.id, r) :
        pc \in {"writeC", "writeQ"}, c \in {Captured1, Captured2}, r \in 1..(MaxOrders + 1)}

\* the whole system; a values.update that is awaited takes effect or fails:
\* no request waits forever
SpecFair ==
    /\ Spec
    /\ \A h \in HookValues : WF_vars(UpdateWriteC(h) \/ WebhookCatch(h))
    /\ \A h \in HookValues : WF_vars(UpdateWriteQ(h) \/ WebhookCatch(h))

\* the last identifiers of the ledgers below: before and at the end of a
\* batch, and before and at the end of the last three-digit batch
LastIds ==
    {<<START_BATCH, 2>>, <<START_BATCH, 998>>, <<START_BATCH, 999>>,
     <<998, 999>>, <<999, 998>>, <<999, 999>>}

\* ledgers that requests served one at a time build: a new sheet, a sheet
\* with its header, and of the longer ones the header, the first order row
\* and the last row; the generator reads the last row and the row count
\* only, the rows in between are left out
SequentialLedgers ==
    {<<>>, <<HeaderRow>>}
    \cup {<<HeaderRow, PendingRow(T1), PendingRow(FormatId(l[1], l[2]))>> : l \in LastIds}

InitSequential ==
    /\ sheet \in SequentialLedgers
    /\ cr = [i \in Orders |-> IdleOrder]
    /\ orders = {}
    /\ hooks = EmptyBag
    /\ last = NoHookStep
    /\ seen = {}

\* no other create-order request is between its first and its last await
OneAtATime(i) == \A j \in Orders \ {i} : cr[j].pc \in {"idle", "done"}

NextSequential ==
    \/ \E i \in Orders : \E data \in LabelledOrderData :
          OneAtATime(i) /\ CreateOrderRead(i, data)
    \/ \E i \in Orders : OneAtATime(i) /\ SaveAppend(i)
    \/ \E i \in Orders : OneAtATime(i) /\ GatewayCreate(i)
    \/ \E i \in Orders : OneAtATime(i) /\ CreateOrderCatch(i)

\* the order endpoint alone, its requests served one after the other
SpecSequential == InitSequential /\ [][NextSequential]_vars

----------------------------------------------------------------------------
(* Properties *)

\* the rows of a sheet
Rows(s) == 1..Len(s)

\* C1: in every reachable ledger, no two rows carry the same tracking id in
\* column B, whatever the interleaving of the create-order requests' read,
\* id generation and append steps
UniqueTrackingIds ==
    \A r1, r2 \in Rows(sheet) : r1 # r2 => sheet[r1].B # sheet[r2].B

\* C2: a create-order request answered 'OK' responds the tracking id that
\* column B of the row it appended holds, which is also the sheet_id note of
\* the gateway order it created
OkResponseNamesAppendedRow ==
    \A i \in Orders :
        cr[i].res.status = "OK" =>
            /\ cr[i].row \in Rows(sheet)
            /\ sheet[cr[i].row].B = cr[i].res.custom_id
            /\ \E o \in orders :
                  /\ o.id = cr[i].res.order_id
                  /\ o.notes.sheet_id = cr[i].res.custom_id
            /\ \A o \in orders :
                  o.id = cr[i].res.order_id => o.notes.sheet_id = cr[i].res.custom_id

\* every request is answered 'OK', the second one's row is the third of
\* the sheet
BothOrdersOk ==
    /\ \A i \in Orders : cr[i].res.status = "OK"
    /\ cr[2].row = 3

\* the digest the handler computes for a request: over the serialization of
\* the parsed body
HandlerDigest(raw) == Hmac(WEBHOOK_SECRET, JsonStringify(JsonParse(raw)))

InvalidSignature == HookResponse(400, "invalid_signature")

\* the step takes a webhook request in
Received == last'.phase \in {"received", "unanswered"}

\* the step issues no ledger call, changes no ledger cell and leaves no
\* request waiting on the ledger
NoLedgerOperation ==
    /\ last'.calls = 0
    /\ sheet' = sheet
    /\ hooks' = hooks

\* C3: a webhook request whose signature header differs from the digest the
\* handler computes is answered 400 {status: 'invalid_signature'} without a
\* ledger read, append or update, whatever its event type and notes: the
\* ledger is the same before and after
RejectedWithoutLedgerOperation ==
    [][(Received /\ last'.sig # HandlerDigest(last'.raw)) =>
          /\ last'.phase = "received"
          /\ last'.res = InvalidSignature
          /\ NoLedgerOperation]_vars

\* a payment.captured request that names a row of the ledger is rejected
RejectedCaptureOfKnownRow ==
    /\ last.phase = "received"
    /\ last.res = InvalidSignature
    /\ last.raw.event = "payment.captured"
    /\ \E r \in Rows(sheet) : sheet[r].B = last.raw.notes.sheet_id

\* C4: a webhook request is accepted if and only if its signature header is
\* the HMAC of the shared secret over its raw body as sent
AcceptedIffRawBodyDigest ==
    last.phase \in {"received", "unanswered"} =>
        (last.res # InvalidSignature <=> last.sig = Hmac(WEBHOOK_SECRET, last.raw))

\* C9: a verified webhook request of another event type than
\* payment.captured is answered 200 {status: 'ignored'} without a ledger
\* operation: the ledger is unchanged
IgnoredWithoutLedgerOperation ==
    [][(/\ Received
        /\ last'.sig = HandlerDigest(last'.raw)
        /\ last'.raw.event # "payment.captured") =>
          /\ last'.phase = "received"
          /\ last'.res = HookResponse(200, "ignored")
          /\ NoLedgerOperation]_vars

\* a verified payment.failed request that names a row of the ledger is
\* ignored
IgnoredEventOfKnownRow ==
    /\ last.phase = "received"
    /\ last.res = HookResponse(200, "ignored")
    /\ last.sig = HandlerDigest(last.raw)
    /\ \E r \in Rows(sheet) : sheet[r].B = last.raw.notes.sheet_id

\* C10: a verified payment.captured request without a tracking id (no
\* sheet_id note, an empty one, or no notes object) is answered 200 without
\* a ledger update; it is never failed or left unanswered
NoTrackingIdAcknowledged ==
    (/\ last.phase \in {"received", "unanswered"}
     /\ last.sig = HandlerDigest(last.raw)
     /\ last.raw.event = "payment.captured"
     /\ ~HasSheetId(last.raw.notes)) =>
        /\ last.phase = "received"
        /\ last.res.code = 200
        /\ last.calls = 0

\* the event of a request that is answered, or in flight, has been applied
\* to the first row that carries its tracking id
AppliedTo(s, targetId, rzpPaymentId) ==
    Applied(s, FindRowIndex(ColumnB(s), targetId), rzpPaymentId)

\* C5: a second delivery of a verified payment.captured event is
\* idempotent.  Once a delivery is acknowledged 'ok' its row holds the
\* payment id and the paid status, and keeps them; a delivery of the same
\* event that finds its row so writes the same values into the same cells:
\* each of its writes leaves the ledger as it is, with the same number of
\* rows, and it is acknowledged 'ok' like the first
SecondDeliveryIdempotent ==
    [][/\ (last'.phase = "answered" /\ last'.res = HookOk) =>
              AppliedTo(sheet', last'.raw.notes.sheet_id, last'.raw.id)
       /\ \A r \in Rows(sheet) : \A p \in {Captured1.id, Captured2.id} :
              Applied(sheet, r, p) => Applied(sheet', r, p)
       /\ \A h \in InFlight :
              AppliedTo(sheet, h.targetId, h.rzpPaymentId) =>
                  /\ h.rowIndex = FindRowIndex(ColumnB(sheet), h.targetId)
                  /\ UpdateWriteC(h) => sheet' = sheet
                  /\ UpdateWriteQ(h) => sheet' = sheet /\ last'.res = HookOk]_vars

\* a first delivery has completed: the row is paid; the second one, alone
\* in flight, is about to write the status again
SecondDeliveryInFlight ==
    /\ BagCardinality(hooks) = 1
    /\ \E h \in InFlight :
          /\ h.pc = "writeQ"
          /\ AppliedTo(sheet, h.targetId, h.rzpPaymentId)

\* C6: a verified payment.captured request whose sheet_id note matches no
\* value of the tracking-id column is, once the column is read, answered
\* 200 with the ledger unchanged: no cell written, no row added, nothing
\* left to write
UnknownIdAcknowledged ==
    [][(/\ last'.phase = "received"
        /\ last'.sig = HandlerDigest(last'.raw)
        /\ last'.raw.event = "payment.captured"
        /\ HasSheetId(last'.raw.notes)
        /\ \A r \in Rows(sheet) : sheet[r].B # last'.raw.notes.sheet_id
        /\ last'.res # HookError) =>
          /\ last'.res = HookOk
          /\ last'.calls = 1
          /\ sheet' = sheet
          /\ hooks' = hooks]_vars

\* a capture is acknowledged after one ledger call on a sheet that holds
\* an order row, none of its tracking id
UnknownIdAmongRows ==
    /\ last.phase = "received"
    /\ last.res = HookOk
    /\ last.calls = 1
    /\ Len(sheet) > 1
    /\ \A r \in Rows(sheet) : sheet[r].B # last.raw.notes.sheet_id

\* C7: in every step, under every interleaving of create-order and webhook
\* requests, rows stay, a new row is pending, and a status cell that
\* changes moves from 'Pending Payment' to the paid value: a paid row never
\* takes another status
StatusOnlyMovesToPaid ==
    [][/\ Len(sheet') >= Len(sheet)
       /\ \A r \in Rows(sheet') :
              IF r \in Rows(sheet)
              THEN sheet'[r].Q # sheet[r].Q => sheet[r].Q = PENDING /\ sheet'[r].Q = PAID
              ELSE sheet'[r].Q = PENDING]_vars

\* a paid row is written again while an order is about to be appended
PaidRowWrittenAgain ==
    /\ \E i \in Orders : cr[i].pc = "append"
    /\ \E h \in InFlight : h.pc = "writeQ" /\ sheet[h.rowIndex].Q = PAID

\* the row still holds what was written when it was created
AsCreated(row) == row = HeaderRow \/ (row.C = PLACEHOLDER /\ row.Q = PENDING)

\* C8: a row whose status or payment-id cell differs from what was written
\* at its creation carries the tracking id of a payment.captured request
\* with a matching signature received earlier; the steps of create-order
\* requests and the steps that take a webhook request in, rejected and
\* ignored ones among them, leave every existing row as it is
RowsChangedOnlyByVerifiedCapture ==
    /\ [](\A r \in Rows(sheet) : AsCreated(sheet[r]) \/ sheet[r].B \in seen)
    /\ [][(cr' # cr \/ Received) =>
              \A r \in Rows(sheet) : r \in Rows(sheet') /\ sheet'[r] = sheet[r]]_vars

\* the row of the second tracking id is paid, and a forged request is
\* rejected
PaidRowAndForgedRequest ==
    /\ \E r \in Rows(sheet) : sheet[r].B = T2 /\ sheet[r].Q = PAID /\ sheet[r].C = Captured2.id
    /\ last.res = InvalidSignature

\* C11: every gateway order carries a tracking id in notes.sheet_id, and when
\* it is created its request has already appended a row with that id: the
\* row is appended with status 'Pending Payment' and holds it still, unless
\* a verified payment.captured request for that id has been received in
\* between; no order is created by a request that has not appended
AppendPrecedesGatewayOrder ==
    [][/\ \A r \in Rows(sheet') \ Rows(sheet) : sheet'[r].Q = PENDING
       /\ \A o \in orders' \ orders :
              /\ Len(o.notes.sheet_id) > 0
              /\ \E i \in Orders :
                    /\ o.id = i
                    /\ cr[i].row \in Rows(sheet)
                    /\ sheet[cr[i].row].B = o.notes.sheet_id
                    /\ sheet[cr[i].row].Q = PENDING \/ o.notes.sheet_id \in seen]_vars

\* an order is created for a pending row while another request has read
\* the column and not yet appended
OrderCreatedForPendingRow ==
    /\ \E o \in orders : sheet[cr[o.id].row].Q = PENDING
    /\ \E i \in Orders : cr[i].pc = "append"

\* C12: a create-order request whose ledger append or gateway call fails
\* ends with one response, of an error status code and status 'FAILED',
\* and nothing is rolled back: the failing step changes neither the ledger
\* nor the gateway's orders, a response once sent is never replaced, the
\* row of a request that failed after its append stays in the ledger (with
\* 'Pending Payment', unless a verified capture for its id is received),
\* and a request that failed without an append has created no order
FailureLeavesPendingRow ==
    /\ [](\A i \in Orders :
             cr[i].res.status = "FAILED" =>
                 /\ cr[i].pc = "done"
                 /\ cr[i].res.code >= 400
                 /\ \A o \in orders : o.id # i
                 /\ cr[i].row # 0 =>
                       /\ cr[i].row \in Rows(sheet)
                       /\ sheet[cr[i].row].B = cr[i].newCustomId
                       /\ sheet[cr[i].row].Q = PENDING \/ cr[i].newCustomId \in seen)
    /\ [][\A i \in Orders :
             /\ cr[i].res # NoResponse => cr'[i] = cr[i]
             /\ (cr[i].res = NoResponse /\ cr'[i].res.status = "FAILED") =>
                   sheet' = sheet /\ orders' = orders]_vars

\* the gateway call of a request fails after its append: its row is left
\* pending, below the row of a request that was answered 'OK'
OrphanPendingRow ==
    \E i, j \in Orders :
        /\ cr[i].res.status = "FAILED"
        /\ cr[i].row = 3
        /\ sheet[cr[i].row].Q = PENDING
        /\ cr[j].res.status = "OK"

\* C13: a verified webhook request is answered 500 only when one of the two
\* cell writes of updateSheetStatus fails; every other outcome, a failure
\* to read the tracking-id column included, is answered 200.  Stated for
\* the requests the handler answers itself (those with a notes object)
ServerErrorOnlyOnWriteFailure ==
    (/\ last.phase \in {"received", "answered"}
     /\ last.res # NoHookResponse
     /\ last.sig = HandlerDigest(last.raw)
     /\ last.raw.event = "payment.captured" => last.raw.notes.present) =>
        IF last.res.code = 500
        THEN last.calls >= 2
        ELSE last.res.code = 200

\* the identifier SPLbbbsss, sss padded to three digits
Identifier(bbb, sss) ==
    <<"S", "P", "L">> \o ToDigits(bbb)
        \o (IF sss < 10 THEN <<"0", "0">> ELSE IF sss < 100 THEN <<"0">> ELSE <<>>)
        \o ToDigits(sss)

\* the number that the three characters of s from position k on spell
ThreeDigits(s, k) == 100 * DigitVal(s[k]) + 10 * DigitVal(s[k + 1]) + DigitVal(s[k + 2])

\* C14: the generator returns SPL351001 for an empty column, and for a
\* column whose last identifier is SPLbbbsss the identifier SPLbbb(sss+1)
\* when sss < 999 and SPL(bbb+1)001 when sss = 999
GeneratorFollowsLastId ==
    \A i \in Orders :
        cr[i].pc = "append" =>
            LET rows == ColumnB(sheet)
                lastId == rows[Len(rows)]
            IN  /\ Len(rows) = 0 => cr[i].newCustomId = Identifier(351, 1)
                /\ (/\ Len(rows) > 0
                    /\ Len(lastId) = 9
                    /\ \A k \in 4..9 : IsDigit(lastId[k])) =>
                      LET bbb == ThreeDigits(lastId, 4)
                          sss == ThreeDigits(lastId, 7)
                      IN  lastId = Identifier(bbb, sss) =>
                              cr[i].newCustomId =
                                  IF sss < 999 THEN Identifier(bbb, sss + 1)
                                  ELSE Identifier(bbb + 1, 1)

\* C15: when create-order requests run one at a time, the identifier
\* generated for a request differs from every identifier of the column it
\* was generated from
SequentialIdIsFresh ==
    \A i \in Orders :
        cr[i].pc = "append" =>
            \A r \in Rows(sheet) : sheet[r].B # cr[i].newCustomId

\* what stands in the label between its first size marker and the next
\* closing bracket after it
BetweenMarkerAndBracket(label) ==
    LET from == IndexOf(label, SIZE_MARKER) + Len(SIZE_MARKER)
        to == CHOOSE k \in from..Len(label) :
                  /\ label[k] = ")"
                  /\ \A j \in from..(k - 1) : label[j] # ")"
    IN  SubSeq(label, from, to - 1)

\* C16: the size written to the row of a request is 'N/A' when its product
\* label holds no '(Size:' marker, and else the trimmed text between the
\* first marker and the next ')' after it, without what follows that ')'
SizeIsTextBeforeBracket ==
    \A i \in Orders :
        cr[i].row # 0 =>
            LET label == cr[i].data.product_name
            IN  IF ~Includes(label, SIZE_MARKER)
                THEN sheet[cr[i].row].L = <<"N", "/", "A">>
                ELSE (\E k \in 1..Len(label) :
                          k >= IndexOf(label, SIZE_MARKER) + Len(SIZE_MARKER) /\ label[k] = ")") =>
                     sheet[cr[i].row].L = Trim(BetweenMarkerAndBracket(label))

\* C17: in every reachable ledger, between the two cell updates of a
\* delivery and after a failure between them too, a row with the paid
\* status holds a payment id in column C, not the placeholder written at
\* its creation: the payment id is written before the status
PaidRowHoldsPaymentId ==
    \A r \in Rows(sheet) :
        sheet[r].Q = PAID =>
            /\ sheet[r].C # PLACEHOLDER
            /\ sheet[r].C \in {Captured1.id, Captured2.id}

\* one row is paid; the delivery for another row failed between its two
\* updates and left the payment id with the pending status
FailureBetweenUpdates ==
    /\ last.phase = "answered"
    /\ last.res = HookError
    /\ last.calls = 3
    /\ \E r \in Rows(sheet) : sheet[r].Q = PAID
    /\ \E r \in Rows(sheet) :
          /\ sheet[r].B = last.raw.notes.sheet_id
          /\ sheet[r].C = last.raw.id
          /\ sheet[r].Q = PENDING

\* the writes a delivery in flight has still to make, made at once
Remaining(h, s) ==
    IF h.pc = "writeC"
    THEN UpdateCell(UpdateCell(s, h.rowIndex, "C", h.rzpPaymentId), h.rowIndex, "Q", PAID)
    ELSE UpdateCell(s, h.rowIndex, "Q", PAID)

\* the payment.captured events delivered with a matching signature
SignedCaptures ==
    {d[1] : d \in {e \in Deliveries : VerifiedCapture(e[1], e[2]) # {}}}

\* C18: under every interleaving of the reads and cell writes of concurrent
\* deliveries and of create-order appends, a write of a delivery changes
\* cells C and Q of a row of its own tracking id only; what a delivery in
\* flight has still to write is what updateSheetStatus run alone on the
\* present ledger would write, and runs for different tracking ids give
\* the same ledger in either order, so the final ledger is that of the
\* deliveries run one after the other; a delivery acknowledged 'ok' leaves
\* the first row of its tracking id with its payment id and the paid status
ConcurrentDeliveriesSerializable ==
    /\ [](/\ \A h \in InFlight :
                Remaining(h, sheet) = updateSheetStatus(sheet, h.targetId, h.rzpPaymentId)
          /\ \A a, b \in SignedCaptures :
                a.notes.sheet_id # b.notes.sheet_id =>
                    updateSheetStatus(updateSheetStatus(sheet, a.notes.sheet_id, a.id),
                                      b.notes.sheet_id, b.id)
                    = updateSheetStatus(updateSheetStatus(sheet, b.notes.sheet_id, b.id),
                                        a.notes.sheet_id, a.id))
    /\ [][/\ \A h \in InFlight :
                (UpdateWriteC(h) \/ UpdateWriteQ(h)) =>
                    /\ Len(sheet') = Len(sheet)
                    /\ \A r \in Rows(sheet) :
                          /\ sheet[r].B # h.targetId => sheet'[r] = sheet[r]
                          /\ [sheet'[r] EXCEPT !.C = "", !.Q = ""] = [sheet[r] EXCEPT !.C = "", !.Q = ""]
          /\ (last'.phase = "answered" /\ last'.res = HookOk) =>
                \E r \in Rows(sheet') :
                    /\ sheet'[r].B = last'.raw.notes.sheet_id
                    /\ \A k \in 1..(r - 1) : sheet'[k].B # last'.raw.notes.sheet_id
                    /\ sheet'[r].C = last'.raw.id
                    /\ sheet'[r].Q = PAID]_vars

\* deliveries for two tracking ids are in flight together, one before its
\* first write and one between its writes, while a create-order request
\* is still running
TwoDeliveriesInFlight ==
    /\ \E h1, h2 \in InFlight :
          /\ h1.targetId # h2.targetId
          /\ h1.pc = "writeC"
          /\ h2.pc = "writeQ"
    /\ \E i \in Orders : cr[i].pc = "order"

\* C19: when a create-order request has returned a tracking id and a
\* verified payment.captured request with that id is delivered later, its
\* ledger calls succeeding, the row this create-order request appended
\* eventually holds the paid status and the payment id of the event
AppendedRowEventuallyPaid ==
    \A i \in Orders : \A c \in SignedCaptures :
        [](( /\ cr[i].res.status = "OK"
             /\ cr[i].res.custom_id = c.notes.sheet_id
             /\ last.phase = "received"
             /\ last.raw = c
             /\ last.calls = 2)
           => <>( \/ /\ cr[i].row \in Rows(sheet)
                     /\ sheet[cr[i].row].Q = PAID
                     /\ sheet[cr[i].row].C = c.id
                  \/ /\ last.phase = "answered"
                     /\ last.raw = c
                     /\ last.res = HookError))

\* r is the first row of s that carries the tracking id
FirstRowOf(s, r, targetId) ==
    /\ r \in Rows(s)
    /\ s[r].B = targetId
    /\ \A k \in 1..(r - 1) : s[k].B # targetId

\* C20: no step removes a row or changes column B or another column than C
\* and Q of an existing row; a step changes at most one cell, the payment
\* id or the status of the first row carrying the tracking id of a delivery
\* that is at that write, so a delivery writes at most these two cells;
\* the number of rows grows by one in the steps in which the append of a
\* create-order request takes effect, and in no other step
OnlyPaymentCellsChange ==
    [][/\ Len(sheet') = Len(sheet) + 1 <=>
              \E i \in Orders : cr[i].pc = "append" /\ cr'[i].pc = "order"
       /\ Len(sheet') \in {Len(sheet), Len(sheet) + 1}
       /\ \A r \in Rows(sheet) :
              /\ [sheet'[r] EXCEPT !.C = "", !.Q = ""] = [sheet[r] EXCEPT !.C = "", !.Q = ""]
              /\ sheet'[r].C # sheet[r].C =>
                    /\ sheet'[r].Q = sheet[r].Q
                    /\ \A k \in Rows(sheet) \ {r} : sheet'[k] = sheet[k]
                    /\ \E h \in InFlight :
                          /\ h.pc = "writeC"
                          /\ FirstRowOf(sheet, r, h.targetId)
                          /\ sheet'[r].C = h.rzpPaymentId
              /\ sheet'[r].Q # sheet[r].Q =>
                    /\ sheet'[r].C = sheet[r].C
                    /\ \A k \in Rows(sheet) \ {r} : sheet'[k] = sheet[k]
                    /\ \E h \in InFlight :
                          /\ h.pc = "writeQ"
                          /\ FirstRowOf(sheet, r, h.targetId)
                          /\ sheet'[r].Q = PAID]_vars

\* the second row is paid and a delivery for the third row, appended
\* after the second, is between its two writes
SecondOrderBetweenWrites ==
    /\ Len(sheet) = 3
    /\ sheet[2].Q = PAID
    /\ sheet[3].C = Captured2.id
    /\ sheet[3].Q = PENDING
    /\ \E h \in InFlight : h.pc = "writeQ" /\ h.rowIndex = 3

====
